---- MODULE Spec2Model ----
(***************************************************************************)
(* A model of bayesopt_sandbox.ipynb: the Bayesian-optimization loop       *)
(* (initialize_samples, select_surrogate_model, compute_acquisition,       *)
(* estimate_uncertainty, bayesian_optimization and                          *)
(* interactive_bayesian_optimization).                                      *)
(*                                                                         *)
(* Numbers.  Inputs are points of a scaled-down domain: a coordinate is an *)
(* integer 0 .. 2*(GridRes-1); np.linspace(-2, 2, GridRes) is the even     *)
(* coordinates, the odd ones lie between grid points.  mu, sigma and the   *)
(* objective's outputs are small integers.  A numpy float that may be      *)
(* not-a-number or infinite is a record [k, v]; acquisition scores are     *)
(* such records, in units of 1/1000.                                       *)
(*                                                                         *)
(* Libraries.  np.random is the generator state rng (a full-period linear  *)
(* congruential generator).  The surrogate's fit/predict (scikit-learn)    *)
(* and np.argpartition are functions whose value is not fixed by this      *)
(* repository: each call chooses among the values the library's contract   *)
(* allows, and two calls with equal inputs (generator state included)      *)
(* return equal values.                                                     *)
(***************************************************************************)
EXTENDS Integers, Sequences, FiniteSets, TLC

VARIABLES cfg, runs, call, ret

vars == <<cfg, runs, call, ret>>

(***************************************************************************)
(* Bounds of the model.                                                    *)
(***************************************************************************)
\* points per axis of the candidate grid (the notebook uses 50)
GridRes == 3
\* largest configured iteration count
MaxIter == 2
\* largest configured initial-sample count
MaxInit == 3
\* largest number of points a configured run appends (iterations * batch_size)
MaxBudget == 4

(***************************************************************************)
(* numpy floats                                                            *)
(***************************************************************************)
Fin(v) == [k |-> "fin", v |-> v]
NaN == [k |-> "nan", v |-> 0]
PInf == [k |-> "pinf", v |-> 0]
NInf == [k |-> "ninf", v |-> 0]

IsNaN(a) == a.k = "nan"
IsFinite(a) == a.k = "fin"

\* a >= b for floats: false as soon as one side is not-a-number
FGe(a, b) ==
    IF IsNaN(a) \/ IsNaN(b) THEN FALSE
    ELSE IF a.k = "pinf" \/ b.k = "ninf" THEN TRUE
    ELSE IF a.k = "ninf" \/ b.k = "pinf" THEN FALSE
    ELSE a.v >= b.v

\* unary minus
FNeg(a) ==
    IF a.k = "fin" THEN Fin(0 - a.v)
    ELSE IF a.k = "pinf" THEN NInf
    ELSE IF a.k = "ninf" THEN PInf
    ELSE NaN

\* the order numpy's sorts and partitions use: a < b, with not-a-number last
SortLess(a, b) ==
    IF IsNaN(a) THEN FALSE
    ELSE IF IsNaN(b) THEN TRUE
    ELSE ~FGe(a, b)

\* imp / sigma on arrays of finite floats, warnings ignored: x/0 is +-inf, 0/0 is
\* not-a-number.  A finite quotient is kept in halves (sigma is 1 or 2 here).
FDiv(imp, sigma) ==
    IF sigma = 0
    THEN (IF imp > 0 THEN PInf ELSE IF imp < 0 THEN NInf ELSE NaN)
    ELSE Fin((2 * imp) \div sigma)

\* integer * float (the float in units of 1/1000)
FMulInt(i, a) ==
    IF a.k = "fin" THEN Fin(i * a.v)
    ELSE IF a.k = "nan" \/ i = 0 THEN NaN
    ELSE IF (i > 0) = (a.k = "pinf") THEN PInf ELSE NInf

FAdd(a, b) ==
    IF IsNaN(a) \/ IsNaN(b) THEN NaN
    ELSE IF a.k = "fin" /\ b.k = "fin" THEN Fin(a.v + b.v)
    ELSE IF a.k = "fin" THEN b
    ELSE IF b.k = "fin" THEN a
    ELSE IF a.k = b.k THEN a ELSE NaN

Abs(i) == IF i < 0 THEN 0 - i ELSE i
Min(i, j) == IF i < j THEN i ELSE j

\* 1000 * Phi(h/2) for h = 0 .. 8
CdfTable == <<500, 691, 841, 933, 977, 994, 999, 1000, 1000>>
\* 1000 * phi(h/2) for h = 0 .. 8
PdfTable == <<399, 352, 242, 130, 54, 18, 4, 1, 0>>

\* scipy.stats.norm.cdf, argument in halves, value in 1/1000
norm_cdf(Z) ==
    IF Z.k = "nan" THEN NaN
    ELSE IF Z.k = "pinf" THEN Fin(1000)
    ELSE IF Z.k = "ninf" THEN Fin(0)
    ELSE IF Z.v >= 0 THEN Fin(CdfTable[Min(Z.v, 8) + 1])
    ELSE Fin(1000 - CdfTable[Min(0 - Z.v, 8) + 1])

\* scipy.stats.norm.pdf, argument in halves, value in 1/1000
norm_pdf(Z) ==
    IF Z.k = "nan" THEN NaN
    ELSE IF Z.k = "fin" THEN Fin(PdfTable[Min(Abs(Z.v), 8) + 1])
    ELSE Fin(0)

(***************************************************************************)
(* np.random: the process-wide generator                                    *)
(***************************************************************************)
RngStates == 0 .. 15

\* one step of the generator
Advance(s) == (5 * s + 3) % 16

RECURSIVE RngSeq(_, _)
\* the generator state after k draws
RngSeq(s, k) == IF k = 0 THEN s ELSE RngSeq(Advance(s), k - 1)

\* a run that leaves the generator in the state it found it in
np_random_seed_missing(rng, random_state) == rng

\* line 275: np.random.seed(random_state): the state depends on the seed alone
np_random_seed(rng, random_state) == (7 * random_state + 1) % 16

(***************************************************************************)
(* The search space and the objective                                      *)
(***************************************************************************)
\* number of coordinates of the domain [-2, 2]
DomainSize == 2 * GridRes - 1

\* x = np.linspace(-2, 2, GridRes)
x == [i \in 1 .. GridRes |-> 2 * (i - 1)]

\* the candidate grid: x as a column for one dimension, else the raveled
\* np.meshgrid (indexing 'xy': the first axis varies fastest)
GridOf(dimensions) ==
    IF dimensions = 1
    THEN [i \in 1 .. GridRes |-> <<x[i]>>]
    ELSE [i \in 1 .. GridRes * GridRes |->
            <<x[((i - 1) % GridRes) + 1], x[((i - 1) \div GridRes) + 1]>>]

RECURSIVE SumOver(_, _)
SumOver(f, n) == IF n = 0 THEN 0 ELSE f[n] + SumOver(f, n - 1)

RECURSIVE MaxOver(_, _)
\* np.max of the first n entries (n >= 1)
MaxOver(f, n) ==
    IF n = 1 THEN f[1]
    ELSE LET m == MaxOver(f, n - 1) IN IF f[n] > m THEN f[n] ELSE m

\* the landscape returned by generate_fitness_landscape, at one point: a fixed
\* deterministic function of the point, one term per axis
fitness_point(p) == SumOver([j \in 1 .. Len(p) |-> (2 * p[j] + 1) % 3], Len(p))

\* fitness_function(X): one output per row of X, in the order of the rows
fitness_function(X) == [i \in 1 .. Len(X) |-> fitness_point(X[i])]

(***************************************************************************)
(* initialize_samples                                                      *)
(***************************************************************************)
RECURSIVE Log2Floor(_)
\* int(np.log2(n)) for n >= 1
Log2Floor(n) == IF n < 2 THEN 0 ELSE 1 + Log2Floor(n \div 2)

RECURSIVE Pow2(_)
Pow2(m) == IF m = 0 THEN 1 ELSE 2 * Pow2(m - 1)

\* the i-th point (from 0) of the unscrambled base-2 sequence, in eighths
RadicalInverse(i) == 4 * (i % 2) + 2 * ((i \div 2) % 2) + ((i \div 4) % 2)

\* sampler.random_base2(m) * 4 - 2: exactly 2^m points, no generator draw
SobolPoints(m, dimensions) ==
    [i \in 1 .. Pow2(m) |->
        [j \in 1 .. dimensions |->
            (RadicalInverse(((i - 1) * (2 * j - 1)) % 8) * (DomainSize - 1)) \div 8]]

\* np.random.uniform(-2, 2, (n, dimensions)): n * dimensions draws, row by row
UniformPoints(n, dimensions, rng) ==
    [i \in 1 .. n |->
        [j \in 1 .. dimensions |->
            RngSeq(rng, (i - 1) * dimensions + j) % DomainSize]]

\* lhs(dimensions, samples=n) * 4 - 2: one point per stratum on every axis, the
\* strata permuted per axis by a draw
LhsPoints(n, dimensions, rng) ==
    [i \in 1 .. n |->
        [j \in 1 .. dimensions |->
            (((i - 1 + RngSeq(rng, j)) % n) * DomainSize) \div n]]

\* the Sobol branch truncates the count to a power of two
initialize_samples_sobol(initial_samples, dimensions, rng) ==
    [X |-> SobolPoints(Log2Floor(initial_samples), dimensions), rng |-> rng,
     raised |-> FALSE]

\* initialize_samples(initial_samples, dimensions, sampling_method), with the
\* generator state read and left behind
initialize_samples(initial_samples, dimensions, sampling_method, rng) ==
    IF sampling_method = "Random"
    THEN [X |-> UniformPoints(initial_samples, dimensions, rng),
          rng |-> RngSeq(rng, initial_samples * dimensions), raised |-> FALSE]
    ELSE IF sampling_method = "Latin Hypercube"
    THEN [X |-> LhsPoints(initial_samples, dimensions, rng),
          rng |-> RngSeq(rng, dimensions), raised |-> FALSE]
    ELSE IF sampling_method = "Sobol"
    THEN initialize_samples_sobol(initial_samples, dimensions, rng)
    ELSE [X |-> UniformPoints(initial_samples, dimensions, rng),
          rng |-> RngSeq(rng, initial_samples * dimensions), raised |-> FALSE]

(***************************************************************************)
(* select_surrogate_model                                                  *)
(***************************************************************************)
\* the kernel of the 'Gaussian Process' branch
KernelOf(kernel_choice) ==
    IF kernel_choice = "Matern" THEN "Matern+WhiteKernel"
    ELSE IF kernel_choice = "RBF" THEN "RBF+WhiteKernel"
    ELSE IF kernel_choice = "RationalQuadratic" THEN "RationalQuadratic+WhiteKernel"
    ELSE "Matern+WhiteKernel"

\* select_surrogate_model(model_name, kernel_choice): the estimator built
select_surrogate_model(model_name, kernel_choice) ==
    IF model_name = "Gaussian Process"
    THEN [class |-> "GaussianProcessRegressor", kernel |-> KernelOf(kernel_choice)]
    ELSE IF model_name = "Random Forest"
    THEN [class |-> "RandomForestRegressor", kernel |-> "none"]
    ELSE IF model_name = "Neural Network"
    THEN [class |-> "MLPRegressor", kernel |-> "none"]
    ELSE [class |-> "GaussianProcessRegressor", kernel |-> "default"]

(***************************************************************************)
(* compute_acquisition                                                     *)
(***************************************************************************)
\* 'UCB', and the default branch: mu + kappa * sigma
ucb_at(mu, sigma, kappa) == Fin(mu + kappa * sigma)

\* lines 105-107: Z = imp / sigma; ei = imp * norm.cdf(Z) + sigma * norm.pdf(Z)
ei_value(imp, sigma) ==
    LET Z == FDiv(imp, sigma)
    IN  FAdd(FMulInt(imp, norm_cdf(Z)), FMulInt(sigma, norm_pdf(Z)))

\* expected improvement with nothing masked
ei_unmasked(mu, sigma, mu_sample_opt, xi) == ei_value(mu - mu_sample_opt - xi, sigma)

\* 'Expected Improvement' at one candidate: ei[sigma == 0.0] = 0.0
ei_at(mu, sigma, mu_sample_opt, xi) ==
    IF sigma = 0 THEN Fin(0) ELSE ei_value(mu - mu_sample_opt - xi, sigma)

\* 'Probability of Improvement' at one candidate: norm.cdf(Z), nothing masked
pi_at(mu, sigma, mu_sample_opt, xi) == norm_cdf(FDiv(mu - mu_sample_opt - xi, sigma))

\* np.random.normal(mu, sigma) at one candidate, from one draw
normal_at(mu, sigma, draw) == Fin(mu + sigma * ((draw % 3) - 1))

\* a default that scores by the mean alone
default_acquisition_mean_only(mu, sigma, kappa) ==
    [i \in 1 .. Len(mu) |-> Fin(mu[i])]

\* the else branch: "Default to UCB"
default_acquisition(mu, sigma, kappa) ==
    [i \in 1 .. Len(mu) |-> ucb_at(mu[i], sigma[i], kappa)]

\* compute_acquisition(acquisition_function, mu, sigma, Y_sample, kappa, xi), with
\* the generator state read and left behind
compute_acquisition(acquisition_function, mu, sigma, Y_sample, kappa, xi, rng) ==
    LET n == Len(mu)
        mu_sample_opt == MaxOver(Y_sample, Len(Y_sample))
    IN  IF acquisition_function = "UCB"
        THEN [acquisition |-> [i \in 1 .. n |-> ucb_at(mu[i], sigma[i], kappa)],
              rng |-> rng]
        ELSE IF acquisition_function = "Expected Improvement"
        THEN [acquisition |->
                [i \in 1 .. n |-> ei_at(mu[i], sigma[i], mu_sample_opt, xi)],
              rng |-> rng]
        ELSE IF acquisition_function = "Probability of Improvement"
        THEN [acquisition |->
                [i \in 1 .. n |-> pi_at(mu[i], sigma[i], mu_sample_opt, xi)],
              rng |-> rng]
        ELSE IF acquisition_function = "Thompson Sampling"
        THEN [acquisition |->
                [i \in 1 .. n |-> normal_at(mu[i], sigma[i], RngSeq(rng, i))],
              rng |-> RngSeq(rng, n)]
        ELSE IF acquisition_function = "Random"
        THEN [acquisition |-> [i \in 1 .. n |-> Fin(RngSeq(rng, i))],
              rng |-> RngSeq(rng, n)]
        ELSE [acquisition |-> default_acquisition(mu, sigma, kappa), rng |-> rng]

(***************************************************************************)
(* estimate_uncertainty                                                    *)
(***************************************************************************)
\* how estimate_uncertainty(model, X, model_name) obtains mean and deviation
estimate_uncertainty_via(model_name) ==
    IF model_name = "Gaussian Process" THEN "predict(return_std=True)"
    ELSE IF model_name = "Random Forest" THEN "std over estimators_"
    ELSE IF model_name = "Neural Network" THEN "std over 10 predict passes"
    ELSE "predict(return_std=True)"

(***************************************************************************)
(* np.argpartition and the batch selection                                 *)
(***************************************************************************)
Perms(n) == {p \in [1 .. n -> 1 .. n] : \A i, j \in 1 .. n : p[i] = p[j] => i = j}

\* the index orders of an array over the grid
GridPerms == Perms(GridRes)

\* np.argpartition(a, kth), kth counted from 0: the index orders in which the
\* element at position kth is where a sort would put it, nothing smaller behind it
\* and nothing larger before it; the order inside the two parts is not defined.
\* No order at all when kth is out of bounds (ValueError).
argpartition(a, kth) ==
    IF kth >= Len(a) \/ kth < 0 - Len(a) THEN {}
    ELSE LET k == (IF kth < 0 THEN kth + Len(a) ELSE kth) + 1
         IN  {p \in (IF Len(a) = GridRes THEN GridPerms ELSE Perms(Len(a))) :
                /\ \A i \in 1 .. k - 1 : ~SortLess(a[p[k]], a[p[i]])
                /\ \A i \in k + 1 .. Len(a) : ~SortLess(a[p[i]], a[p[k]])}

\* a selection that takes the first indices of the grid, whatever they score
select_batch_first(acquisition, batch_size) ==
    {[j \in 1 .. batch_size |-> j]}

\* np.argpartition(-acquisition.ravel(), batch_size-1)[:batch_size]: every value
\* idx_next may take (none: the call raises)
select_batch(acquisition, batch_size) ==
    {SubSeq(p, 1, batch_size) :
        p \in argpartition([i \in 1 .. Len(acquisition) |-> FNeg(acquisition[i])],
                           batch_size - 1)}

(***************************************************************************)
(* StandardScaler                                                          *)
(***************************************************************************)
\* scaler.fit(X): per axis the count, the sum and the sum of squares, which fix
\* the mean and the variance
ScalerFit(X) ==
    IF Len(X) = 0 THEN <<>>
    ELSE [j \in 1 .. Len(X[1]) |->
            <<Len(X),
              SumOver([i \in 1 .. Len(X) |-> X[i][j]], Len(X)),
              SumOver([i \in 1 .. Len(X) |-> X[i][j] * X[i][j]], Len(X))>>]

\* scaler.transform(X): each coordinate with the statistics that scale it
ScalerTransform(stats, X) ==
    [i \in 1 .. Len(X) |-> [j \in 1 .. Len(X[i]) |-> <<X[i][j], stats[j]>>]]

(***************************************************************************)
(* Configurations                                                          *)
(***************************************************************************)
AcquisitionTags ==
    {"UCB", "Expected Improvement", "Probability of Improvement",
     "Thompson Sampling", "Random", "unrecognized"}
SurrogateTags == {"Gaussian Process", "Random Forest", "Neural Network", "unrecognized"}
KernelTags == {"Matern", "RBF", "RationalQuadratic", "unrecognized"}
SamplingTags == {"Random", "Latin Hypercube", "Sobol", "unrecognized"}

\* values a prediction takes at one candidate
MuVals == {0, 1}
SigmaVals == {0, 1}

\* every prediction pair (mu, sigma) over n candidates with these values
AllPredictions(n) == [mu : [1 .. n -> MuVals], sigma : [1 .. n -> SigmaVals]]

\* the prediction pairs a fitted surrogate returns over n candidates in a run: the
\* mean flat, or rising and falling along the grid; the deviation zero everywhere,
\* positive everywhere, or zero at every other candidate
Predictions(n) ==
    {[mu |-> [i \in 1 .. n |-> (i * a) % 2], sigma |-> [i \in 1 .. n |-> (b + i * c) % 2]] :
        a \in {0, 1}, b \in {0, 1}, c \in {0, 1}}

DefaultCfg ==
    [acquisition_function |-> "UCB", surrogate_model |-> "Gaussian Process",
     kernel_choice |-> "Matern", kappa |-> 2, xi |-> 0, iterations |-> 1,
     batch_size |-> 1, dimensions |-> 1, initial_samples |-> 1,
     sampling_method |-> "Random", random_state |-> 0]

(***************************************************************************)
(* One run of interactive_bayesian_optimization                            *)
(***************************************************************************)
\* the locals and globals of a run before its first statement; rng is whatever
\* state the generator was left in
NewRun(rng) ==
    [pc |-> "seed", err |-> "", rng |-> rng,
     X_grid |-> <<>>, Y_grid_true |-> <<>>,
     X_sample |-> <<>>, Y_sample |-> <<>>, initial_count |-> 0,
     model |-> [class |-> "", kernel |-> ""],
     scaler |-> <<>>, X_sample_scaled |-> <<>>,
     fitted |-> [X |-> <<>>, Y |-> <<>>, rng |-> 0], via |-> "",
     iteration |-> 0,
     mu |-> <<>>, sigma |-> <<>>, acquisition |-> <<>>, idx_next |-> <<>>,
     X_next |-> <<>>, Y_next |-> <<>>,
     bound |-> {},
     evals |-> <<>>, fits |-> 0, predicts |-> 0, scores |-> 0, selects |-> 0,
     appends |-> 0, batches |-> <<>>]

\* lines 153, 161, 167, 184: only the 'Neural Network' tag goes through the scaler
UsesScaler(model_name) == model_name = "Neural Network"

\* line 275: np.random.seed(random_state)
SeedStep(s) ==
    [s EXCEPT !.pc = "grid", !.rng = np_random_seed(s.rng, cfg.random_state)]

\* lines 282-287: the search space
GridStep(s) == [s EXCEPT !.pc = "truth", !.X_grid = GridOf(cfg.dimensions)]

\* line 289: Y_grid_true = fitness_function(X_grid)
TruthStep(s) ==
    [s EXCEPT !.pc = "init",
              !.Y_grid_true = fitness_function(s.X_grid),
              !.evals = Append(s.evals, s.X_grid)]

\* line 292: X_sample = initialize_samples(...)
InitStep(s) ==
    LET r == initialize_samples(cfg.initial_samples, cfg.dimensions,
                                cfg.sampling_method, s.rng)
    IN  IF r.raised
        THEN [s EXCEPT !.pc = "error", !.err = "ValueError"]
        ELSE [s EXCEPT !.pc = "evalInit", !.X_sample = r.X, !.rng = r.rng]

\* line 293: Y_sample = fitness_function(X_sample)
EvalInitStep(s) ==
    [s EXCEPT !.pc = "model",
              !.Y_sample = fitness_function(s.X_sample),
              !.evals = Append(s.evals, s.X_sample)]

\* line 296: model = select_surrogate_model(...)
ModelStep(s) ==
    [s EXCEPT !.pc = "enter",
              !.model = select_surrogate_model(cfg.surrogate_model, cfg.kernel_choice)]

\* lines 151-157: entering bayesian_optimization with the initial sample set
EnterStep(s) ==
    [s EXCEPT !.pc = "loop",
              !.initial_count = Len(s.X_sample),
              !.scaler = IF UsesScaler(cfg.surrogate_model)
                         THEN ScalerFit(s.X_sample) ELSE <<>>,
              !.X_sample_scaled =
                  IF UsesScaler(cfg.surrogate_model)
                  THEN ScalerTransform(ScalerFit(s.X_sample), s.X_sample) ELSE <<>>]

\* a loop that runs one round too many
LoopStep_one_more(s) ==
    [s EXCEPT !.pc = IF Len(s.batches) <= cfg.iterations THEN "fit" ELSE "return",
              !.iteration = IF Len(s.batches) <= cfg.iterations
                            THEN Len(s.batches) ELSE s.iteration]

\* line 159: for iteration in range(iterations)
LoopStep(s) ==
    [s EXCEPT !.pc = IF Len(s.batches) < cfg.iterations THEN "fit" ELSE "return",
              !.iteration = IF Len(s.batches) < cfg.iterations
                            THEN Len(s.batches) ELSE s.iteration]

\* whether fitting this estimator draws from np.random (random_state=None)
FitDraws(model) == model.class \in {"RandomForestRegressor", "MLPRegressor"}

\* a fit that keeps to the initial samples
FitStep_on_initial(s) ==
    [s EXCEPT !.pc = "predict",
              !.fitted = [X |-> SubSeq(IF UsesScaler(cfg.surrogate_model)
                                       THEN s.X_sample_scaled ELSE s.X_sample,
                                       1, s.initial_count),
                          Y |-> SubSeq(s.Y_sample, 1, s.initial_count),
                          rng |-> IF FitDraws(s.model) THEN s.rng ELSE 0],
              !.rng = IF FitDraws(s.model) THEN Advance(s.rng) ELSE s.rng,
              !.fits = s.fits + 1]

\* lines 161-164: model.fit on the whole current sample set
FitStep(s) ==
    [s EXCEPT !.pc = "predict",
              !.fitted = [X |-> IF UsesScaler(cfg.surrogate_model)
                                THEN s.X_sample_scaled ELSE s.X_sample,
                          Y |-> s.Y_sample,
                          rng |-> IF FitDraws(s.model) THEN s.rng ELSE 0],
              !.rng = IF FitDraws(s.model) THEN Advance(s.rng) ELSE s.rng,
              !.fits = s.fits + 1]

\* what the prediction of lines 167-171 is a function of
PredictKey(s) ==
    <<s.model, s.fitted,
      IF UsesScaler(cfg.surrogate_model)
      THEN ScalerTransform(s.scaler, s.X_grid) ELSE s.X_grid>>

\* lines 167-171: mu, sigma = estimate_uncertainty(model, grid, model_name)
PredictStep(s, pred) ==
    [s EXCEPT !.pc = "score",
              !.mu = pred.mu, !.sigma = pred.sigma,
              !.via = estimate_uncertainty_via(cfg.surrogate_model),
              !.bound = s.bound \cup {"mu", "sigma"},
              !.predicts = s.predicts + 1]

\* line 174: acquisition = compute_acquisition(...)
ScoreStep(s) ==
    LET r == compute_acquisition(cfg.acquisition_function, s.mu, s.sigma,
                                 s.Y_sample, cfg.kappa, cfg.xi, s.rng)
    IN  [s EXCEPT !.pc = "select",
                  !.acquisition = r.acquisition, !.rng = r.rng,
                  !.bound = s.bound \cup {"acquisition"},
                  !.scores = s.scores + 1]

\* the values line 177 may give idx_next; <<>> stands for the ValueError
SelectChoices(s) ==
    IF select_batch(s.acquisition, cfg.batch_size) = {}
    THEN {<<>>}
    ELSE select_batch(s.acquisition, cfg.batch_size)

\* a selection that takes the selected points out of the grid
SelectStep_consuming(s, idx) ==
    IF idx = <<>>
    THEN [s EXCEPT !.pc = "error", !.err = "ValueError"]
    ELSE [s EXCEPT !.pc = "evaluate", !.idx_next = idx,
                   !.X_grid = SubSeq(s.X_grid, 1, Len(s.X_grid) - Len(idx)),
                   !.bound = s.bound \cup {"idx_next"},
                   !.selects = s.selects + 1]

\* line 177: idx_next = np.argpartition(...)[:batch_size]
SelectStep(s, idx) ==
    IF idx = <<>>
    THEN [s EXCEPT !.pc = "error", !.err = "ValueError"]
    ELSE [s EXCEPT !.pc = "evaluate", !.idx_next = idx,
                   !.bound = s.bound \cup {"idx_next"},
                   !.selects = s.selects + 1]

\* an evaluation of the whole grid in place of the batch
EvaluateStep_whole_grid(s) ==
    [s EXCEPT !.pc = "append",
              !.X_next = [j \in 1 .. Len(s.idx_next) |-> s.X_grid[s.idx_next[j]]],
              !.Y_next = [j \in 1 .. Len(s.idx_next) |->
                            fitness_function(s.X_grid)[s.idx_next[j]]],
              !.evals = Append(s.evals, s.X_grid)]

\* an evaluation that hands the outputs back in reverse order
EvaluateStep_reversed(s) ==
    LET X_next == [j \in 1 .. Len(s.idx_next) |-> s.X_grid[s.idx_next[j]]]
        n == Len(s.idx_next)
    IN  [s EXCEPT !.pc = "append",
                  !.X_next = X_next,
                  !.Y_next = [j \in 1 .. n |-> fitness_function(X_next)[n + 1 - j]],
                  !.evals = Append(s.evals, X_next)]

\* lines 178-179: X_next = X_grid[idx_next]; Y_next = fitness_function(X_next)
EvaluateStep(s) ==
    LET X_next == [j \in 1 .. Len(s.idx_next) |-> s.X_grid[s.idx_next[j]]]
    IN  [s EXCEPT !.pc = "append",
                  !.X_next = X_next, !.Y_next = fitness_function(X_next),
                  !.evals = Append(s.evals, X_next)]

\* an append that extends the inputs and leaves the outputs behind
AppendStep_inputs_only(s) ==
    [s EXCEPT !.pc = "loop",
              !.X_sample = s.X_sample \o s.X_next,
              !.appends = s.appends + 1,
              !.batches = Append(s.batches, s.idx_next)]

\* an append that refits the model on the extended sample set
AppendStep_then_refit(s) ==
    LET X == s.X_sample \o s.X_next
        Xs == IF UsesScaler(cfg.surrogate_model)
              THEN ScalerTransform(ScalerFit(X), X) ELSE s.X_sample_scaled
    IN  [s EXCEPT !.pc = "loop",
                  !.X_sample = X,
                  !.Y_sample = s.Y_sample \o s.Y_next,
                  !.scaler = IF UsesScaler(cfg.surrogate_model)
                             THEN ScalerFit(X) ELSE s.scaler,
                  !.X_sample_scaled = Xs,
                  !.fitted = [X |-> IF UsesScaler(cfg.surrogate_model) THEN Xs ELSE X,
                              Y |-> s.Y_sample \o s.Y_next,
                              rng |-> s.fitted.rng],
                  !.appends = s.appends + 1,
                  !.batches = Append(s.batches, s.idx_next)]

\* lines 182-187: np.vstack onto both arrays, the scaler refit, the progress bar
AppendStep(s) ==
    LET X == s.X_sample \o s.X_next
    IN  [s EXCEPT !.pc = "loop",
                  !.X_sample = X,
                  !.Y_sample = s.Y_sample \o s.Y_next,
                  !.scaler = IF UsesScaler(cfg.surrogate_model)
                             THEN ScalerFit(X) ELSE s.scaler,
                  !.X_sample_scaled =
                      IF UsesScaler(cfg.surrogate_model)
                      THEN ScalerTransform(ScalerFit(X), X) ELSE s.X_sample_scaled,
                  !.appends = s.appends + 1,
                  !.batches = Append(s.batches, s.idx_next)]

\* a return that hands back whatever there is
ReturnStep_always(s) == [s EXCEPT !.pc = "done"]

\* line 190: return X_sample, Y_sample, mu, sigma, acquisition, idx_next
ReturnStep(s) ==
    IF {"mu", "sigma", "acquisition", "idx_next"} \subseteq s.bound
    THEN [s EXCEPT !.pc = "done"]
    ELSE [s EXCEPT !.pc = "error", !.err = "UnboundLocalError"]

(***************************************************************************)
(* The actions: every run of the session takes the step together            *)
(***************************************************************************)
AllAt(p) == runs # <<>> /\ \A r \in DOMAIN runs : runs[r].pc = p

\* equal inputs to a library call give equal values
SameForSame(key, ch) ==
    \A r1, r2 \in DOMAIN runs : key[r1] = key[r2] => ch[r1] = ch[r2]

SetSeed ==
    /\ AllAt("seed")
    /\ runs' = [r \in DOMAIN runs |-> SeedStep(runs[r])]
    /\ UNCHANGED <<cfg, call, ret>>

BuildGrid ==
    /\ AllAt("grid")
    /\ runs' = [r \in DOMAIN runs |-> GridStep(runs[r])]
    /\ UNCHANGED <<cfg, call, ret>>

EvaluateGrid ==
    /\ AllAt("truth")
    /\ runs' = [r \in DOMAIN runs |-> TruthStep(runs[r])]
    /\ UNCHANGED <<cfg, call, ret>>

InitializeSamples ==
    /\ AllAt("init")
    /\ runs' = [r \in DOMAIN runs |-> InitStep(runs[r])]
    /\ UNCHANGED <<cfg, call, ret>>

EvaluateInitial ==
    /\ AllAt("evalInit")
    /\ runs' = [r \in DOMAIN runs |-> EvalInitStep(runs[r])]
    /\ UNCHANGED <<cfg, call, ret>>

SelectModel ==
    /\ AllAt("model")
    /\ runs' = [r \in DOMAIN runs |-> ModelStep(runs[r])]
    /\ UNCHANGED <<cfg, call, ret>>

Enter ==
    /\ AllAt("enter")
    /\ runs' = [r \in DOMAIN runs |-> EnterStep(runs[r])]
    /\ UNCHANGED <<cfg, call, ret>>

Loop ==
    /\ AllAt("loop")
    /\ runs' = [r \in DOMAIN runs |-> LoopStep(runs[r])]
    /\ UNCHANGED <<cfg, call, ret>>

Fit ==
    /\ AllAt("fit")
    /\ runs' = [r \in DOMAIN runs |-> FitStep(runs[r])]
    /\ UNCHANGED <<cfg, call, ret>>

\* the choices of one library call per run: one value for all when the runs call
\* with the same inputs, else any values that are equal for equal inputs
LibraryChoices(key, first, all) ==
    {ch \in [DOMAIN runs -> IF \A r \in DOMAIN runs : key[r] = key[1]
                            THEN {first} ELSE all] :
        ch[1] = first /\ SameForSame(key, ch)}

Predict ==
    /\ AllAt("predict")
    /\ \E first \in Predictions(Len(runs[1].X_grid)) :
          \E ch \in LibraryChoices([r \in DOMAIN runs |-> PredictKey(runs[r])],
                                   first, Predictions(Len(runs[1].X_grid))) :
             runs' = [r \in DOMAIN runs |-> PredictStep(runs[r], ch[r])]
    /\ UNCHANGED <<cfg, call, ret>>

Score ==
    /\ AllAt("score")
    /\ runs' = [r \in DOMAIN runs |-> ScoreStep(runs[r])]
    /\ UNCHANGED <<cfg, call, ret>>

SelectBatch ==
    /\ AllAt("select")
    /\ \E first \in SelectChoices(runs[1]) :
          \E ch \in LibraryChoices([r \in DOMAIN runs |-> runs[r].acquisition], first,
                                   UNION {SelectChoices(runs[r]) : r \in DOMAIN runs}) :
             /\ \A r \in DOMAIN runs : ch[r] \in SelectChoices(runs[r])
             /\ runs' = [r \in DOMAIN runs |-> SelectStep(runs[r], ch[r])]
    /\ UNCHANGED <<cfg, call, ret>>

Evaluate ==
    /\ AllAt("evaluate")
    /\ runs' = [r \in DOMAIN runs |-> EvaluateStep(runs[r])]
    /\ UNCHANGED <<cfg, call, ret>>

AppendBatch ==
    /\ AllAt("append")
    /\ runs' = [r \in DOMAIN runs |-> AppendStep(runs[r])]
    /\ UNCHANGED <<cfg, call, ret>>

Return ==
    /\ AllAt("return")
    /\ runs' = [r \in DOMAIN runs |-> ReturnStep(runs[r])]
    /\ UNCHANGED <<cfg, call, ret>>

Next ==
    \/ SetSeed \/ BuildGrid \/ EvaluateGrid \/ InitializeSamples
    \/ EvaluateInitial \/ SelectModel \/ Enter \/ Loop \/ Fit \/ Predict
    \/ Score \/ SelectBatch \/ Evaluate \/ AppendBatch \/ Return

NoCall == [fn |-> "none", args |-> <<>>]
NoRet == [k |-> "none", v |-> <<>>]

\* at most one of the three strategy tags differs from the notebook's default
OneTagVaried(c) ==
    LET a == IF c.acquisition_function # "UCB" THEN 1 ELSE 0
        m == IF c.surrogate_model # "Gaussian Process" THEN 1 ELSE 0
        i == IF c.sampling_method # "Random" THEN 1 ELSE 0
    IN  a + m + i <= 1

\* a batch the grid cannot serve, or a run within the budget
WithinBudget(c) ==
    c.batch_size > GridRes \/ c.iterations * c.batch_size <= MaxBudget

\* the configurations of one run
Configs ==
    {c \in [acquisition_function : AcquisitionTags, surrogate_model : SurrogateTags,
            kernel_choice : {"Matern"}, kappa : {2}, xi : {0},
            iterations : 0 .. MaxIter, batch_size : 1 .. GridRes + 1,
            dimensions : {1}, initial_samples : 1 .. MaxInit,
            sampling_method : SamplingTags, random_state : {0}] :
        OneTagVaried(c) /\ WithinBudget(c)}

Init ==
    /\ cfg \in Configs
    /\ runs \in [{1} -> {NewRun(rng) : rng \in {0}}]
    /\ call = NoCall
    /\ ret = NoRet

Spec == Init /\ [][Next]_vars

(***************************************************************************)
(* Two runs with one configuration and one seed, the generator left in any *)
(* state before each                                                        *)
(***************************************************************************)
PairConfigs ==
    [acquisition_function : AcquisitionTags, surrogate_model : SurrogateTags,
     kernel_choice : {"Matern"}, kappa : {2}, xi : {0},
     iterations : {2}, batch_size : {1, 2},
     dimensions : {1}, initial_samples : {2},
     sampling_method : SamplingTags, random_state : {1}]

InitPair ==
    /\ cfg \in {c \in PairConfigs : WithinBudget(c)}
    /\ runs \in [{1, 2} -> {NewRun(rng) : rng \in {0, 5}}]
    /\ call = NoCall
    /\ ret = NoRet

SpecPair == InitPair /\ [][Next]_vars

(***************************************************************************)
(* The functions on their own: one call, its arguments drawn from bounded  *)
(* sets                                                                     *)
(***************************************************************************)
NoArgs ==
    [acquisition_function |-> "", mu |-> <<>>, sigma |-> <<>>, Y_sample |-> <<>>,
     kappa |-> 0, xi |-> 0, rng |-> 0, batch_size |-> 0, initial_samples |-> 0,
     dimensions |-> 0, sampling_method |-> "", model_name |-> "",
     kernel_choice |-> ""]

NoResult ==
    [acquisition |-> <<>>, rng |-> 0, idx_next |-> <<>>, X |-> <<>>,
     model |-> [class |-> "", kernel |-> ""], via |-> "", scaled |-> FALSE]

\* histories of observed outputs
Histories == {<<0>>, <<1>>, <<1, 0>>, <<0, 2>>}

AcquisitionCalls ==
    {[fn |-> "compute_acquisition",
      args |-> [NoArgs EXCEPT !.acquisition_function = a, !.mu = p.mu,
                              !.sigma = p.sigma, !.Y_sample = y, !.kappa = 2,
                              !.xi = m, !.rng = g, !.batch_size = b]] :
        a \in AcquisitionTags, p \in AllPredictions(GridRes), y \in Histories,
        m \in {0, 1}, g \in {0, 5}, b \in 1 .. GridRes}

SamplingCalls ==
    {[fn |-> "initialize_samples",
      args |-> [NoArgs EXCEPT !.initial_samples = n, !.dimensions = d,
                              !.sampling_method = t, !.rng = g]] :
        n \in 1 .. MaxInit, d \in {1, 2}, t \in SamplingTags, g \in RngStates}

ModelCalls ==
    {[fn |-> "select_surrogate_model",
      args |-> [NoArgs EXCEPT !.model_name = t, !.kernel_choice = k]] :
        t \in SurrogateTags, k \in KernelTags}

\* compute_acquisition(...) on the call's arguments
CallComputeAcquisition ==
    /\ call.fn = "compute_acquisition" /\ ret.k = "none"
    /\ LET a == call.args
           r == compute_acquisition(a.acquisition_function, a.mu, a.sigma,
                                    a.Y_sample, a.kappa, a.xi, a.rng)
       IN  ret' = [k |-> "acquisition",
                   v |-> [NoResult EXCEPT !.acquisition = r.acquisition,
                                          !.rng = r.rng]]
    /\ UNCHANGED <<cfg, runs, call>>

\* line 177 on the scores just computed
CallSelectBatch ==
    /\ call.fn = "compute_acquisition" /\ ret.k = "acquisition"
    /\ \E idx \in select_batch(ret.v.acquisition, call.args.batch_size) :
          ret' = [k |-> "idx_next", v |-> [ret.v EXCEPT !.idx_next = idx]]
    /\ UNCHANGED <<cfg, runs, call>>

\* initialize_samples(...) on the call's arguments
CallInitializeSamples ==
    /\ call.fn = "initialize_samples" /\ ret.k = "none"
    /\ LET a == call.args
           r == initialize_samples(a.initial_samples, a.dimensions,
                                   a.sampling_method, a.rng)
       IN  ret' = [k |-> IF r.raised THEN "raised" ELSE "X_sample",
                   v |-> [NoResult EXCEPT !.X = r.X, !.rng = r.rng]]
    /\ UNCHANGED <<cfg, runs, call>>

\* select_surrogate_model(...) and the dispatch of bayesian_optimization and
\* estimate_uncertainty on the same tag
CallSelectSurrogateModel ==
    /\ call.fn = "select_surrogate_model" /\ ret.k = "none"
    /\ ret' = [k |-> "model",
               v |-> [NoResult EXCEPT
                        !.model = select_surrogate_model(call.args.model_name,
                                                         call.args.kernel_choice),
                        !.via = estimate_uncertainty_via(call.args.model_name),
                        !.scaled = UsesScaler(call.args.model_name)]]
    /\ UNCHANGED <<cfg, runs, call>>

NextCall ==
    \/ CallComputeAcquisition \/ CallSelectBatch
    \/ CallInitializeSamples \/ CallSelectSurrogateModel

InitCall ==
    /\ cfg = DefaultCfg
    /\ runs = <<>>
    /\ call \in AcquisitionCalls \cup SamplingCalls \cup ModelCalls
    /\ ret = NoRet

SpecCall == InitCall /\ [][NextCall]_vars

(***************************************************************************)
(* Properties                                                              *)
(***************************************************************************)
\* the positions inside bayesian_optimization
InController ==
    {"loop", "fit", "predict", "score", "select", "evaluate", "append", "return",
     "done"}

\* a batch size the grid can serve
ValidBatch == cfg.batch_size >= 1 /\ cfg.batch_size <= GridRes ^ cfg.dimensions

\* C1: inside bayesian_optimization (before the loop, at every step of every
\* iteration outside the append itself, and at return) the sample set holds as many
\* outputs as inputs, and after k completed iterations it holds
\* initial_count + k * batch_size inputs, initial_count being the size of the set
\* handed to the controller.
SampleCountInvariant ==
    \A r \in DOMAIN runs :
        LET s == runs[r]
        IN  s.pc \in InController =>
              /\ Len(s.X_sample) = Len(s.Y_sample)
              /\ Len(s.X_sample) = s.initial_count + s.appends * cfg.batch_size
              /\ s.appends = Len(s.batches)
              /\ s.pc \in {"return", "done"} => s.appends = cfg.iterations

\* a run has returned after two iterations of two points each
SampleCountWitness ==
    \E r \in DOMAIN runs :
        /\ runs[r].pc = "done" /\ cfg.iterations = 2 /\ cfg.batch_size = 2
        /\ Len(runs[r].X_sample) = runs[r].initial_count + 4
        /\ runs[r].initial_count >= 2

\* the indices of a batch are pairwise distinct
Distinct(idx) == \A i, j \in 1 .. Len(idx) : idx[i] = idx[j] => i = j

\* idx is a top set of the scores: nothing left out scores above anything taken
TopSet(acquisition, idx) ==
    \A i \in 1 .. Len(idx) :
        \A j \in (1 .. Len(acquisition)) \ {idx[k] : k \in 1 .. Len(idx)} :
            FGe(acquisition[idx[i]], acquisition[j])

\* C2: for the scores of any strategy over the grid and any batch size B from 1 to
\* the grid size, idx_next holds exactly B pairwise distinct grid indices, each
\* scoring at least as high as every index left out.
BatchIsTopSet ==
    ret.k = "idx_next" =>
        /\ Len(ret.v.idx_next) = call.args.batch_size
        /\ Distinct(ret.v.idx_next)
        /\ \A i \in 1 .. Len(ret.v.idx_next) :
              ret.v.idx_next[i] \in 1 .. Len(ret.v.acquisition)
        /\ TopSet(ret.v.acquisition, ret.v.idx_next)

\* C3: with a batch size above the grid size the controller runs no step of the
\* loop: nothing is fitted, predicted or scored, the objective is not evaluated on
\* a batch and the sample set stays as it was handed over.
OversizedBatchRejected ==
    \A r \in DOMAIN runs :
        LET s == runs[r]
        IN  cfg.batch_size > GridRes ^ cfg.dimensions =>
              /\ s.pc \notin {"fit", "predict", "score", "select", "evaluate", "append"}
              /\ s.fits = 0 /\ s.predicts = 0 /\ s.scores = 0
              /\ s.appends = 0

\* the result of compute_acquisition is in
Scored == call.fn = "compute_acquisition" /\ ret.k \in {"acquisition", "idx_next"}

\* C4: 'Expected Improvement' scores exactly 0 at every candidate whose sigma is
\* exactly 0, whatever the mean, the observed outputs and the margin xi; the score
\* there is a finite number.
ExpectedImprovementZeroAtZeroSigma ==
    Scored /\ call.args.acquisition_function = "Expected Improvement" =>
        \A i \in 1 .. Len(call.args.sigma) :
            call.args.sigma[i] = 0 => ret.v.acquisition[i] = Fin(0)

\* expected improvement has been scored where sigma is 0 and the improvement is 0
\* (the quotient is 0/0), next to a candidate with sigma 0 and a positive improvement
ExpectedImprovementWitness ==
    /\ Scored /\ call.args.acquisition_function = "Expected Improvement"
    /\ \E i, j \in 1 .. Len(call.args.sigma) :
          /\ call.args.sigma[i] = 0 /\ call.args.sigma[j] = 0
          /\ call.args.mu[i] - MaxOver(call.args.Y_sample, Len(call.args.Y_sample))
                - call.args.xi = 0
          /\ call.args.mu[j] - MaxOver(call.args.Y_sample, Len(call.args.Y_sample))
                - call.args.xi > 0
          /\ ret.v.acquisition[i] = Fin(0) /\ ret.v.acquisition[j] = Fin(0)

\* C5: 'Probability of Improvement' guards the division as expected improvement
\* does: at every candidate whose sigma is exactly 0 the score is the neutral 0, and
\* no score is not-a-number.
ProbabilityOfImprovementGuarded ==
    Scored /\ call.args.acquisition_function = "Probability of Improvement" =>
        \A i \in 1 .. Len(call.args.sigma) :
            /\ ~IsNaN(ret.v.acquisition[i])
            /\ call.args.sigma[i] = 0 => ret.v.acquisition[i] = Fin(0)

IsPowerOfTwo(n) == Pow2(Log2Floor(n)) = n

\* C6: initialize_samples with 'Sobol' raises a configuration error when the count
\* is not a power of two, and returns exactly the count asked for when it is.
SobolCountEnforced ==
    /\ call.fn = "initialize_samples" /\ ret.k # "none"
    /\ call.args.sampling_method = "Sobol"
    => IF IsPowerOfTwo(call.args.initial_samples)
       THEN ret.k = "X_sample" /\ Len(ret.v.X) = call.args.initial_samples
       ELSE ret.k = "raised"

\* C7: two runs with one seed and one configuration have, at every step, the same
\* sample set, the same batches selected so far and the same position, whatever
\* state the generator was in before each run.
SameSeedSameRun ==
    \A r1, r2 \in DOMAIN runs :
        runs[r1].pc # "seed" =>
            /\ runs[r1].pc = runs[r2].pc
            /\ runs[r1].X_sample = runs[r2].X_sample
            /\ runs[r1].Y_sample = runs[r2].Y_sample
            /\ runs[r1].batches = runs[r2].batches
            /\ runs[r1].idx_next = runs[r2].idx_next
            /\ runs[r1].rng = runs[r2].rng

\* both runs have returned after two iterations that drew from the generator in
\* sampling, fitting and scoring, having started from different generator states
SameSeedWitness ==
    /\ DOMAIN runs = {1, 2}
    /\ runs[1].pc = "done" /\ runs[2].pc = "done"
    /\ cfg.sampling_method = "Random" /\ cfg.surrogate_model = "Random Forest"
    /\ cfg.acquisition_function = "Thompson Sampling"
    /\ Len(runs[1].batches) = 2
    /\ runs[1].X_sample = runs[2].X_sample

\* the points of a batch
BatchPoints(s, idx) == [j \in 1 .. Len(idx) |-> s.X_grid[idx[j]]]

\* C8 as stated: the objective is called on the initial sample set first and then
\* once per iteration on the batch selected, n + 1 calls for n iterations, and on
\* nothing else.
ObjectiveCalledOnSamplesOnly ==
    \A r \in DOMAIN runs :
        LET s == runs[r]
        IN  /\ \A k \in 1 .. Len(s.evals) :
                  IF k = 1
                  THEN s.pc # "init" /\ s.evals[1] = SubSeq(s.X_sample, 1, Len(s.evals[1]))
                  ELSE k - 1 <= Len(s.batches) + 1
            /\ s.pc \in {"return", "done"} => Len(s.evals) = cfg.iterations + 1

\* C8 as the code has it: the objective is called n + 2 times for n iterations:
\* first on the whole candidate grid (line 289), then on the initial sample set,
\* then once per iteration on exactly the points of the batch selected in it.
ObjectiveCalls ==
    \A r \in DOMAIN runs :
        LET s == runs[r]
        IN  /\ \A k \in 1 .. Len(s.evals) :
                  IF k = 1 THEN s.evals[1] = s.X_grid
                  ELSE IF k = 2
                  THEN /\ s.pc # "evalInit"
                       /\ s.evals[2] = SubSeq(s.X_sample, 1, Len(s.evals[2]))
                       /\ s.pc \in InController => Len(s.evals[2]) = s.initial_count
                  ELSE /\ k - 2 <= s.selects
                       /\ Len(s.evals[k]) = cfg.batch_size
                       /\ s.evals[k] =
                            BatchPoints(s, IF k - 2 <= Len(s.batches)
                                           THEN s.batches[k - 2] ELSE s.idx_next)
            /\ s.pc \in {"return", "done"} => Len(s.evals) = cfg.iterations + 2
            /\ s.pc \in {"loop", "fit", "predict", "score", "select", "evaluate"}
                 => Len(s.evals) = Len(s.batches) + 2
            /\ s.pc = "append" => Len(s.evals) = Len(s.batches) + 3

\* a run has returned after two iterations, four objective calls made
ObjectiveCallsWitness ==
    \E r \in DOMAIN runs :
        /\ runs[r].pc = "done" /\ cfg.iterations = 2 /\ cfg.batch_size = 2
        /\ Len(runs[r].evals) = 4
        /\ Len(runs[r].evals[1]) = GridRes

\* C9: with n >= 1 iterations configured and a batch the grid can serve, the
\* controller never fails and never stops short of its return; the rounds are
\* whole and in order (fit, predict, score, select, evaluate, append), and at the
\* return exactly n of each step have run, the results of the last one bound.
FixedIterationCount ==
    \A r \in DOMAIN runs :
        LET s == runs[r]
            k == Len(s.batches)
            in(ps) == IF s.pc \in ps THEN 1 ELSE 0
        IN  cfg.iterations >= 1 /\ ValidBatch =>
              /\ s.pc # "error"
              /\ s.pc = "done" \/ ENABLED Next
              /\ k <= cfg.iterations /\ s.appends = k
              /\ s.fits = k + in({"predict", "score", "select", "evaluate", "append"})
              /\ s.predicts = k + in({"score", "select", "evaluate", "append"})
              /\ s.scores = k + in({"select", "evaluate", "append"})
              /\ s.selects = k + in({"evaluate", "append"})
              /\ s.pc \in {"fit", "predict", "score", "select", "evaluate", "append"}
                   => k < cfg.iterations /\ s.iteration = k
              /\ s.pc \in {"return", "done"} => k = cfg.iterations
              /\ s.pc = "done" =>
                   /\ s.idx_next = s.batches[cfg.iterations]
                   /\ Len(s.mu) = Len(s.X_grid) /\ Len(s.sigma) = Len(s.X_grid)
                   /\ Len(s.acquisition) = Len(s.X_grid)

\* a run of two iterations has returned, two of every step behind it
FixedIterationWitness ==
    \E r \in DOMAIN runs :
        /\ runs[r].pc = "done" /\ cfg.iterations = 2
        /\ runs[r].fits = 2 /\ runs[r].appends = 2 /\ runs[r].selects = 2

\* C10: an unrecognized tag fails nothing and means the default wherever it is
\* dispatched on: an unrecognized acquisition tag scores as 'UCB' does; an
\* unrecognized surrogate tag builds a Gaussian-process regressor that is fitted
\* without the scaler and predicted with mean and standard deviation; an
\* unrecognized kernel tag means Matern; an unrecognized sampling tag samples as
\* 'Random' does.
UnrecognizedTagsDefault ==
    LET a == call.args
    IN  /\ ret.k # "raised"
        /\ Scored /\ a.acquisition_function \notin (AcquisitionTags \ {"unrecognized"})
             => /\ ret.v.acquisition =
                     compute_acquisition("UCB", a.mu, a.sigma, a.Y_sample, a.kappa,
                                         a.xi, a.rng).acquisition
                /\ \A i \in 1 .. Len(a.mu) :
                     ret.v.acquisition[i] = Fin(a.mu[i] + a.kappa * a.sigma[i])
        /\ ret.k = "model" /\ a.model_name \notin (SurrogateTags \ {"unrecognized"})
             => /\ ret.v.model.class = "GaussianProcessRegressor"
                /\ ~ret.v.scaled
                /\ ret.v.via = "predict(return_std=True)"
        /\ ret.k = "model" /\ a.model_name = "Gaussian Process"
                /\ a.kernel_choice \notin (KernelTags \ {"unrecognized"})
             => ret.v.model.kernel = "Matern+WhiteKernel"
        /\ ret.k = "X_sample" /\ a.sampling_method \notin (SamplingTags \ {"unrecognized"})
             => /\ ret.v.X = UniformPoints(a.initial_samples, a.dimensions, a.rng)
                /\ ret.v.X = initialize_samples(a.initial_samples, a.dimensions, "Random",
                                                a.rng).X

\* an unrecognized acquisition tag has been scored over candidates of which one
\* has a positive sigma
UnrecognizedTagWitness ==
    /\ Scored /\ call.args.acquisition_function = "unrecognized"
    /\ \E i \in 1 .. Len(call.args.sigma) :
          call.args.sigma[i] > 0 /\ ret.v.acquisition[i] = Fin(call.args.mu[i] + 2)

\* the indices a batch leaves out
LeftOut(acquisition, idx) ==
    (1 .. Len(acquisition)) \ {idx[k] : k \in 1 .. Len(idx)}

\* C11 as stated: among candidates that tie on the score, the ones with the
\* lowest grid indices are the ones selected: no index left out ties with a
\* selected index above it.
TiesBrokenByIndexOrder ==
    ret.k = "idx_next" =>
        \A i \in 1 .. Len(ret.v.idx_next) :
            \A j \in LeftOut(ret.v.acquisition, ret.v.idx_next) :
                ret.v.acquisition[j] = ret.v.acquisition[ret.v.idx_next[i]]
                    => ret.v.idx_next[i] < j

\* C11 as the code has it: np.argpartition fixes the selected set only up to
\* ties. idx_next holds B distinct indices and, in the order numpy sorts the
\* negated scores by, nothing left out comes before anything selected; which of
\* the candidates tied at the boundary are selected is not fixed by their index.
TiesLeftToPartition ==
    ret.k = "idx_next" =>
        /\ Len(ret.v.idx_next) = call.args.batch_size
        /\ Distinct(ret.v.idx_next)
        /\ \A i \in 1 .. Len(ret.v.idx_next) :
              \A j \in LeftOut(ret.v.acquisition, ret.v.idx_next) :
                  ~SortLess(FNeg(ret.v.acquisition[j]),
                            FNeg(ret.v.acquisition[ret.v.idx_next[i]]))

\* a batch has been selected across a tie at its boundary, and a tied candidate
\* of a higher index is in while one of a lower index is left out
TiesWitness ==
    /\ ret.k = "idx_next"
    /\ \A i \in 1 .. Len(ret.v.acquisition) : IsFinite(ret.v.acquisition[i])
    /\ \E i \in 1 .. Len(ret.v.idx_next) :
          \E j \in LeftOut(ret.v.acquisition, ret.v.idx_next) :
              /\ ret.v.acquisition[j] = ret.v.acquisition[ret.v.idx_next[i]]
              /\ j < ret.v.idx_next[i]
    /\ \E i, j \in 1 .. Len(ret.v.acquisition) :
          ret.v.acquisition[i] # ret.v.acquisition[j]

\* the steps of a round after its fit
AfterFit == {"predict", "score", "select", "evaluate", "append"}

\* the step that follows each step of the controller
StepOrder ==
    {<<"loop", "fit">>, <<"loop", "return">>, <<"fit", "predict">>,
     <<"predict", "score">>, <<"score", "select">>, <<"select", "evaluate">>,
     <<"select", "error">>, <<"evaluate", "append">>, <<"append", "loop">>,
     <<"return", "done">>, <<"return", "error">>}

\* in round k the model has been fitted on the whole sample set of that round
FitOnCurrentSamples ==
    \A r \in DOMAIN runs :
        LET s == runs[r]
            k == Len(s.batches) + 1
        IN  ValidBatch =>
              /\ s.pc \in AfterFit =>
                   /\ s.fits = k /\ s.iteration = k - 1
                   /\ Len(s.X_sample) = s.initial_count + (k - 1) * cfg.batch_size
                   /\ Len(s.fitted.Y) = s.initial_count + (k - 1) * cfg.batch_size
                   /\ s.fitted.Y = s.Y_sample
                   /\ s.fitted.X =
                        IF UsesScaler(cfg.surrogate_model)
                        THEN ScalerTransform(ScalerFit(s.X_sample), s.X_sample)
                        ELSE s.X_sample
              /\ s.pc \in AfterFit \cup {"loop", "fit"}
                    /\ UsesScaler(cfg.surrogate_model) =>
                   /\ s.scaler = ScalerFit(s.X_sample)
                   /\ s.X_sample_scaled = ScalerTransform(s.scaler, s.X_sample)
              /\ s.pc \in {"score", "select", "evaluate", "append"} =>
                   /\ s.predicts = k
                   /\ Len(s.mu) = Len(s.X_grid) /\ Len(s.sigma) = Len(s.X_grid)
              /\ s.pc \in {"select", "evaluate", "append"} =>
                   s.scores = k /\ Len(s.acquisition) = Len(s.X_grid)
              /\ s.pc \in {"evaluate", "append"} => s.selects = k
              /\ s.pc = "append" => Len(s.evals) = k + 2

\* every step of the controller is followed by the next one of the round
StepsInOrder ==
    \A r \in DOMAIN runs :
        runs[r].pc \in InController /\ runs'[r].pc # runs[r].pc
            => <<runs[r].pc, runs'[r].pc>> \in StepOrder

\* C12: in every round the steps happen in the order fit, predict, score, select,
\* evaluate, append, one at a time; the fit of round k is on the whole current
\* sample set, the initial pairs and every pair appended in rounds 1 .. k-1; for
\* 'Neural Network' the scaler applied to the fit inputs and to the grid has been
\* refit on that same sample set.
RoundOrderAndFitInput == [](FitOnCurrentSamples) /\ [][StepsInOrder]_vars

\* the second round of a 'Neural Network' run has fitted on the initial samples
\* and the first batch of two, scaled by statistics of those same samples
RoundOrderWitness ==
    \E r \in DOMAIN runs :
        LET s == runs[r]
        IN  /\ s.pc = "score" /\ cfg.surrogate_model = "Neural Network"
            /\ cfg.batch_size = 2 /\ Len(s.batches) = 1 /\ s.fits = 2
            /\ Len(s.fitted.X) = s.initial_count + 2
            /\ s.scaler = ScalerFit(s.X_sample)
            /\ s.scaler # ScalerFit(SubSeq(s.X_sample, 1, s.initial_count))

\* what one step of the controller does to the sample set of a run
AppendOnlyStep(s, t) ==
    IF s.pc = "append"
    THEN /\ t.X_sample = s.X_sample \o BatchPoints(s, s.idx_next)
         /\ t.Y_sample = s.Y_sample \o fitness_function(BatchPoints(s, s.idx_next))
         /\ Len(t.X_sample) = Len(s.X_sample) + cfg.batch_size
         /\ Len(t.Y_sample) = Len(s.Y_sample) + cfg.batch_size
         /\ \A i \in 1 .. Len(s.X_sample) :
               t.X_sample[i] = s.X_sample[i] /\ t.Y_sample[i] = s.Y_sample[i]
         /\ \A i \in Len(s.X_sample) + 1 .. Len(t.X_sample) :
               \E g \in 1 .. Len(s.X_grid) : t.X_sample[i] = s.X_grid[g]
    ELSE t.X_sample = s.X_sample /\ t.Y_sample = s.Y_sample

\* C13: the sample set is append-only. The append of a round adds B pairs at the
\* end, the j-th input the grid point at idx_next[j] and the j-th output the
\* objective's value at that point; every pair that was there stays where it was;
\* no other step of the controller touches the sample set.
SampleSetAppendOnly ==
    [][\A r \in DOMAIN runs :
          runs[r].pc \in InController => AppendOnlyStep(runs[r], runs'[r])]_vars

\* two batches of two have been appended behind the initial pairs, in selection
\* order, the outputs of the last batch differing from one another
AppendOnlyWitness ==
    \E r \in DOMAIN runs :
        LET s == runs[r]
            n == s.initial_count
        IN  /\ s.pc = "done" /\ cfg.batch_size = 2 /\ Len(s.batches) = 2
            /\ SubSeq(s.X_sample, n + 1, n + 4) =
                 BatchPoints(s, s.batches[1]) \o BatchPoints(s, s.batches[2])
            /\ \A i \in 1 .. Len(s.X_sample) : s.Y_sample[i] = fitness_point(s.X_sample[i])
            /\ s.Y_sample[n + 3] # s.Y_sample[n + 4]
            /\ s.batches[2][1] > s.batches[2][2]

\* the grid of d axes has GridRes points per axis, every combination once
WholeGrid(d) ==
    /\ Len(GridOf(d)) = GridRes ^ d
    /\ \A i \in 1 .. Len(GridOf(d)) :
          /\ Len(GridOf(d)[i]) = d
          /\ \A j \in 1 .. d : \E k \in 1 .. GridRes : GridOf(d)[i][j] = x[k]
    /\ \A i, j \in 1 .. Len(GridOf(d)) : GridOf(d)[i] = GridOf(d)[j] => i = j

\* from its construction on, the grid of a run is the whole grid of the
\* configured dimensionality, and the controller works over it
GridAsBuilt ==
    /\ WholeGrid(1) /\ WholeGrid(2)
    /\ \A r \in DOMAIN runs :
          LET s == runs[r]
          IN  /\ s.pc \in {"seed", "grid"} => s.X_grid = <<>>
              /\ s.pc \notin {"seed", "grid"} =>
                   /\ s.X_grid = GridOf(cfg.dimensions)
                   /\ Len(s.X_grid) = GridRes ^ cfg.dimensions
              /\ s.pc \in InController =>
                   /\ \A i \in 1 .. Len(s.X_sample) :
                         Len(s.X_sample[i]) = Len(s.X_grid[1])
                   /\ "mu" \in s.bound =>
                         Len(s.mu) = Len(s.X_grid) /\ Len(s.sigma) = Len(s.X_grid)
                   /\ "acquisition" \in s.bound => Len(s.acquisition) = Len(s.X_grid)
                   /\ \A j \in 1 .. Len(s.idx_next) : s.idx_next[j] \in 1 .. Len(s.X_grid)

\* no step after the construction changes the grid
GridUntouched ==
    \A r \in DOMAIN runs :
        runs[r].pc \notin {"seed", "grid"} => runs'[r].X_grid = runs[r].X_grid

\* C14: the candidate grid is built once per run, GridRes points per axis and
\* GridRes^D points in all, before the first round; no step of a round changes
\* its size, its order or a point of it; every round predicts and selects over
\* that grid, whose points have the dimensionality of the sample inputs.
GridBuiltOnceAndKept == [](GridAsBuilt) /\ [][GridUntouched]_vars

\* two rounds have predicted and selected over the grid built at the start
GridKeptWitness ==
    \E r \in DOMAIN runs :
        LET s == runs[r]
        IN  /\ s.pc = "done" /\ Len(s.batches) = 2 /\ s.predicts = 2
            /\ s.X_grid = GridOf(cfg.dimensions) /\ Len(s.X_grid) = GridRes
            /\ Len(s.mu) = GridRes
            /\ s.batches[1] # s.batches[2]

\* the strategies that draw nothing from the generator
DrawFree == {"UCB", "Expected Improvement", "Probability of Improvement", "unrecognized"}

\* what a run that has returned holds
ReturnedFromLastRound ==
    \A r \in DOMAIN runs :
        LET s == runs[r]
            n == cfg.iterations
            B == cfg.batch_size
            m == s.initial_count + (n - 1) * B
            before == SubSeq(s.X_sample, 1, m)
        IN  s.pc = "done" =>
              /\ n >= 1
              /\ Len(s.X_sample) = m + B /\ Len(s.Y_sample) = m + B
              /\ s.fits = n /\ s.predicts = n /\ s.scores = n /\ s.selects = n
              /\ s.fitted.Y = SubSeq(s.Y_sample, 1, m)
              /\ s.fitted.X = IF UsesScaler(cfg.surrogate_model)
                              THEN ScalerTransform(ScalerFit(before), before)
                              ELSE before
              /\ Len(s.mu) = Len(s.X_grid) /\ Len(s.sigma) = Len(s.X_grid)
              /\ cfg.acquisition_function \in DrawFree =>
                   s.acquisition =
                       compute_acquisition(cfg.acquisition_function, s.mu, s.sigma,
                                           s.fitted.Y, cfg.kappa, cfg.xi,
                                           s.rng).acquisition
              /\ Len(s.idx_next) = B /\ s.idx_next = s.batches[n]
              /\ SubSeq(s.X_sample, m + 1, m + B) = BatchPoints(s, s.idx_next)
              /\ SubSeq(s.Y_sample, m + 1, m + B) =
                   fitness_function(BatchPoints(s, s.idx_next))

\* the results change in their own step only, and nothing is fitted, predicted
\* or scored once the last batch is appended
ResultsFromTheirStep ==
    \A r \in DOMAIN runs :
        LET s == runs[r]
            t == runs'[r]
        IN  /\ s.pc \in InController /\ t.fitted # s.fitted => s.pc = "fit"
            /\ s.pc \in InController /\ (t.mu # s.mu \/ t.sigma # s.sigma)
                 => s.pc = "predict" /\ t.fitted = s.fitted
            /\ s.pc \in InController /\ t.acquisition # s.acquisition
                 => s.pc = "score" /\ t.mu = s.mu /\ t.sigma = s.sigma
            /\ s.pc \in {"loop", "return"} /\ Len(s.batches) = cfg.iterations =>
                 /\ t.pc \in {"return", "done", "error"}
                 /\ t.fits = s.fits /\ t.predicts = s.predicts /\ t.scores = s.scores
                 /\ t.fitted = s.fitted /\ t.mu = s.mu /\ t.sigma = s.sigma
                 /\ t.acquisition = s.acquisition /\ t.idx_next = s.idx_next
                 /\ t.X_sample = s.X_sample /\ t.Y_sample = s.Y_sample

\* C15: at the return after n >= 1 rounds, mu, sigma and the scores are those of
\* the last round, computed from a model fitted on the sample set as it was before
\* the last batch was appended (initial_count + (n-1)*B pairs); the sample set
\* returned holds that batch too (initial_count + n*B pairs); nothing is fitted or
\* predicted after the last append; idx_next names the last B pairs returned.
ReturnIsOneBatchAhead == [](ReturnedFromLastRound) /\ [][ResultsFromTheirStep]_vars

\* a run of two rounds of two has returned six or more pairs with a model fitted
\* on all but the last two, scored by expected improvement
OneBatchAheadWitness ==
    \E r \in DOMAIN runs :
        LET s == runs[r]
        IN  /\ s.pc = "done" /\ cfg.iterations = 2 /\ cfg.batch_size = 2
            /\ cfg.acquisition_function = "Expected Improvement"
            /\ Len(s.fitted.Y) = s.initial_count + 2
            /\ Len(s.X_sample) = s.initial_count + 4
            /\ SubSeq(s.X_sample, s.initial_count + 3, s.initial_count + 4) =
                 BatchPoints(s, s.idx_next)

\* C16: with an iteration count of 0 the controller fits nothing, predicts
\* nothing and evaluates the objective on no batch; the sample set stays the
\* initial one; mu, sigma, acquisition and idx_next are never assigned, and the
\* run ends in an error at the return statement instead of returning.
ZeroIterationsFailAtReturn ==
    \A r \in DOMAIN runs :
        LET s == runs[r]
        IN  cfg.iterations = 0 =>
              /\ s.fits = 0 /\ s.predicts = 0 /\ s.scores = 0 /\ s.selects = 0
              /\ s.appends = 0 /\ s.batches = <<>>
              /\ s.bound = {}
              /\ s.mu = <<>> /\ s.sigma = <<>> /\ s.acquisition = <<>>
              /\ s.idx_next = <<>>
              /\ s.pc \notin {"fit", "predict", "score", "select", "evaluate",
                              "append", "done"}
              /\ s.pc \in {"loop", "return", "error"} =>
                   /\ Len(s.evals) = 2 /\ s.X_sample = s.evals[2]
                   /\ Len(s.X_sample) = s.initial_count
                   /\ s.Y_sample = fitness_function(s.X_sample)
              /\ s.pc = "error" => s.err = "UnboundLocalError"
              /\ s.pc = "error" \/ ENABLED Next

\* a run of no iterations has ended in the error at the return, its initial
\* sample set as it was handed over
ZeroIterationsWitness ==
    \E r \in DOMAIN runs :
        /\ cfg.iterations = 0
        /\ runs[r].pc = "error" /\ runs[r].err = "UnboundLocalError"
        /\ runs[r].initial_count >= 2
        /\ Len(runs[r].X_sample) = runs[r].initial_count
        /\ runs[r].fits = 0

====
